---- MODULE Spec2Model ----
(***************************************************************************)
(* golobactl (cmd/golobactl/main.go): the fan-out of one command to every  *)
(* configured goloba API server.  Each of infoCommand, attachCommand,      *)
(* detachCommand and unlockCommand starts one goroutine per api_servers    *)
(* entry, every goroutine sends one GET, reads the body and prints to the  *)
(* process-wide os.Stdout, and the command waits on a sync.WaitGroup.      *)
(*                                                                         *)
(* A step of the model is one operation on something the goroutines share  *)
(* (the WaitGroup, os.Stdout, os.Stderr, the ltsvlog logger, the network). *)
(* Goroutine-local work is folded into the shared operation it precedes.   *)
(***************************************************************************)
EXTENDS Integers, Sequences, FiniteSets, TLC

\* Largest number of api_servers entries explored.
MaxTargets == 2

\* Flag values meaning "the flag was not given on the command line".
Unset == "<unset>"
NoAddr == <<"<unset>">>

\* The url of the k-th distinct api_servers entry.
URL(k) == "http://lb" \o ToString(k)

\* resp of a goroutine whose Get has not returned a response.
NoResp == [status |-> 0, body |-> <<>>]

\* Two -s / -d operands: an <IPAddress>:<port> as a sequence of characters.
Addr1 == <<"h", ":", "1">>
Addr2 == <<"g", ":", "2">>

(***************************************************************************)
(* Inputs of one run.                                                      *)
(***************************************************************************)

\* a.config.APIServers: distinct URLs, or the same URL repeated.
Configs ==
    {[k \in 1..n |-> URL(k)] : n \in 0..MaxTargets}
        \cup {[k \in 1..n |-> URL(1)] : n \in 2..MaxTargets}

\* args[0] and the flags of the subcommand as given (Unset: not given).
Invocations ==
    {[cmd |-> "info", format |-> f, s |-> NoAddr, d |-> NoAddr, lock |-> Unset] :
        f \in {Unset, "json", "xml"}}
    \cup {[cmd |-> c, format |-> Unset, s |-> o[1], d |-> o[2], lock |-> o[3]] :
            c \in {"attach", "detach"},
            o \in {<<NoAddr, NoAddr, Unset>>, <<Addr1, Addr2, "false">>}}
    \cup {[cmd |-> "unlock", format |-> Unset, s |-> o[1], d |-> o[2], lock |-> Unset] :
            o \in {<<NoAddr, NoAddr>>, <<Addr1, Addr2>>}}

\* Status codes an API server may answer with.
Statuses == {200, 500}

\* Response bodies are sequences of bytes.  For /info the bytes stand for
\* pieces of a JSON document: "S" opens a service, "D" is one destination of
\* the open service, "T" is a member whose JSON type does not fit its Go
\* field, "E" closes the document.  A body that does not end with its one
\* "E", or has a "D" before any "S", is not JSON.
Bytes == {"S", "D", "T", "E"}

\* Longest response body explored with a single api_servers entry.
MaxBody == 4

RECURSIVE SeqsUpTo(_, _)
SeqsUpTo(S, n) ==
    IF n = 0 THEN {<<>>}
    ELSE LET shorter == SeqsUpTo(S, n - 1)
         IN  shorter \cup {Append(q, x) : q \in {r \in shorter : Len(r) = n - 1}, x \in S}

\* What an API server may answer.  A run against a single server explores
\* every body up to MaxBody bytes with every status; a run against several
\* servers explores an empty document, a body that is not JSON and a
\* two-byte document holding one service.
Responses(n) ==
    IF n = 1
      THEN {[status |-> st, body |-> b] : st \in Statuses, b \in SeqsUpTo(Bytes, MaxBody)}
      ELSE {[status |-> 200, body |-> <<"E">>],
            [status |-> 200, body |-> <<"D">>],
            [status |-> 500, body |-> <<"S", "E">>]}

VARIABLES
    args,       \* the command line: subcommand and flags
    servers,    \* a.config.APIServers (s.URL of each entry)
    mpc,        \* the command function: "loop" (up to wg.Wait) or "returned"
    i,          \* position of the range loop (next entry to launch)
    wg,         \* the sync.WaitGroup counter
    pc,         \* per goroutine: where it is
    requests,   \* per goroutine: the GET requests it handed to a.httpClient
    resp,       \* per goroutine: the response Get returned
    data,       \* per goroutine: the bytes read from resp.Body
    info,       \* per goroutine: the api.Info filled by json.Unmarshal
    row,        \* per goroutine: how many Printf calls of the text block are done
    stdout,     \* os.Stdout: the writes in order, each with the goroutine it came from
    stderr,     \* os.Stderr: likewise
    errlog      \* what ltsvlog.Err was given, in order

vars == <<args, servers, mpc, i, wg, pc, requests, resp, data, info, row,
          stdout, stderr, errlog>>

N == Len(servers)
Targets == 1..N

(***************************************************************************)
(* Flag parsing (flag.FlagSet defaults).                                   *)
(***************************************************************************)
format == IF args.format = Unset THEN "text" ELSE args.format
serviceAddr == IF args.s = NoAddr THEN <<>> ELSE args.s
destAddr == IF args.d = NoAddr THEN <<>> ELSE args.d
\* The -lock flag declared with the default false.
lockDefaultFalse == IF args.lock = Unset THEN "false" ELSE args.lock
lock == IF args.lock = Unset THEN "true" ELSE args.lock

(***************************************************************************)
(* The request of one goroutine.                                           *)
(***************************************************************************)
RECURSIVE QueryEscape(_)
QueryEscape(str) ==
    IF str = <<>> THEN <<>>
    ELSE <<(IF Head(str) = ":" THEN "%3A" ELSE Head(str))>> \o QueryEscape(Tail(str))

Path == "/" \o args.cmd

Query ==
    CASE args.cmd = "info" -> <<>>
      [] args.cmd \in {"attach", "detach"} ->
            <<<<"service", QueryEscape(serviceAddr)>>,
              <<"dest", QueryEscape(destAddr)>>,
              <<"lock", lock>>>>
      [] args.cmd = "unlock" ->
            <<<<"service", QueryEscape(serviceAddr)>>,
              <<"dest", QueryEscape(destAddr)>>>>

\* The goroutines without the s := s line: all of them read the one loop
\* variable, which holds the entry of the latest iteration.
CapturedURLShared(t) == servers[i - 1]

\* s := s inside the loop body: the goroutine of entry t owns a copy of it.
CapturedURL(t) == servers[t]

RequestURL(t) == [base |-> CapturedURL(t), path |-> Path, query |-> Query]

(***************************************************************************)
(* json.Unmarshal(data, &info) on the alphabet Bytes.                      *)
(***************************************************************************)
ValidJSON(b) ==
    /\ Len(b) >= 1
    /\ b[Len(b)] = "E"
    /\ \A k \in 1..(Len(b) - 1) : b[k] \in {"S", "D", "T"}
    /\ \A k \in 1..Len(b) : b[k] = "D" => \E j \in 1..(k - 1) : b[j] = "S"

\* Positions of the bytes of kind c in b, ascending.
RECURSIVE PositionsFrom(_, _, _)
PositionsFrom(b, c, k) ==
    IF k > Len(b) THEN <<>>
    ELSE (IF b[k] = c THEN <<k>> ELSE <<>>) \o PositionsFrom(b, c, k + 1)

\* The destinations of the service opened at position p: the "D" bytes up
\* to the next "S".
RECURSIVE DestinationsFrom(_, _)
DestinationsFrom(b, k) ==
    IF k > Len(b) \/ b[k] = "S" THEN <<>>
    ELSE (IF b[k] = "D" THEN <<k>> ELSE <<>>) \o DestinationsFrom(b, k + 1)

DecodedServices(b) ==
    LET opens == PositionsFrom(b, "S", 1)
    IN  [k \in 1..Len(opens) |->
            [id |-> opens[k], Destinations |-> DestinationsFrom(b, opens[k] + 1)]]

\* A syntax error is found before anything is stored; a type mismatch skips
\* the member, decodes the rest and is returned at the end.
Unmarshal(b) ==
    IF ~ValidJSON(b) THEN [err |-> TRUE, Services |-> <<>>]
    ELSE [err |-> \E k \in 1..Len(b) : b[k] = "T", Services |-> DecodedServices(b)]

(***************************************************************************)
(* What the goroutines print.                                              *)
(***************************************************************************)
\* fmt.Printf("%s:\n%s\n", s.URL, string(data))
RawBlock(t, bytes) == <<CapturedURL(t), ":", "\n">> \o bytes \o <<"\n">>

RECURSIVE DestinationRows(_)
DestinationRows(ds) ==
    IF ds = <<>> THEN <<>>
    ELSE <<<<"  -> ", ToString(Head(ds)), "\n">>>> \o DestinationRows(Tail(ds))

\* The service loop printing a service only when it has destinations.
RECURSIVE ServiceRowsSkipEmpty(_)
ServiceRowsSkipEmpty(srs) ==
    IF srs = <<>> THEN <<>>
    ELSE (IF Head(srs).Destinations = <<>>
            THEN <<>>
            ELSE <<<<"svc", ToString(Head(srs).id), "\n">>>>
                    \o DestinationRows(Head(srs).Destinations))
            \o ServiceRowsSkipEmpty(Tail(srs))

RECURSIVE ServiceRows(_)
ServiceRows(srs) ==
    IF srs = <<>> THEN <<>>
    ELSE <<<<"svc", ToString(Head(srs).id), "\n">>>>
            \o DestinationRows(Head(srs).Destinations)
            \o ServiceRows(Tail(srs))

\* The Printf / Println calls of the "text" case, one element per call.
TextWrites(t, inf) ==
    <<<<CapturedURL(t), ":", "\n">>,
      <<"Prot LocalAddress:Port Scheduler Flags", "\n">>,
      <<"  -> RemoteAddress:Port Forward Weight ActiveConn InActConn Detached Locked", "\n">>>>
        \o ServiceRows(inf.Services)
        \o <<<<"\n">>>>

TypeOK ==
    /\ args \in Invocations
    /\ servers \in Configs
    /\ mpc \in {"loop", "returned"}
    /\ i \in 1..(N + 1)
    /\ wg \in Int
    /\ pc \in [Targets -> {"idle", "start", "get", "read", "decode", "print",
                           "rows", "copy", "done"}]

Init ==
    /\ args \in Invocations
    /\ servers \in Configs
    /\ mpc = "loop"
    /\ i = 1
    /\ wg = 0
    /\ pc = [t \in Targets |-> "idle"]
    /\ requests = [t \in Targets |-> <<>>]
    /\ resp = [t \in Targets |-> NoResp]
    /\ data = [t \in Targets |-> <<>>]
    /\ info = [t \in Targets |-> [Services |-> <<>>]]
    /\ row = [t \in Targets |-> 0]
    /\ stdout = <<>>
    /\ stderr = <<>>
    /\ errlog = <<>>

(***************************************************************************)
(* The command function.                                                   *)
(***************************************************************************)
\* The loop body dispatching one server at a time: the next goroutine is
\* started only when the previous one has finished.
LaunchAfterPrevious ==
    /\ mpc = "loop"
    /\ i <= N
    /\ i = 1 \/ pc[i - 1] = "done"
    /\ wg' = wg + 1
    /\ pc' = [pc EXCEPT ![i] = "start"]
    /\ i' = i + 1
    /\ UNCHANGED <<args, servers, mpc, requests, resp, data, info, row,
                   stdout, stderr, errlog>>

\* The loop body without wg.Add(1).
LaunchNoAdd ==
    /\ mpc = "loop"
    /\ i <= N
    /\ pc' = [pc EXCEPT ![i] = "start"]
    /\ i' = i + 1
    /\ UNCHANGED <<args, servers, mpc, wg, requests, resp, data, info, row,
                   stdout, stderr, errlog>>

\* One iteration of the range loop: wg.Add(1); s := s; go func() {...}()
Launch ==
    /\ mpc = "loop"
    /\ i <= N
    /\ wg' = wg + 1
    /\ pc' = [pc EXCEPT ![i] = "start"]
    /\ i' = i + 1
    /\ UNCHANGED <<args, servers, mpc, requests, resp, data, info, row,
                   stdout, stderr, errlog>>

\* The command with the wg.Wait() call left out: it returns after the loop.
WaitOmitted ==
    /\ mpc = "loop"
    /\ i > N
    /\ mpc' = "returned"
    /\ UNCHANGED <<args, servers, i, wg, pc, requests, resp, data, info, row,
                   stdout, stderr, errlog>>

\* A join that waits for a completion signal from some goroutine instead of
\* for a zero counter: it blocks when no goroutine was started.
WaitForADone ==
    /\ mpc = "loop"
    /\ i > N
    /\ wg = 0
    /\ \E t \in Targets : pc[t] = "done"
    /\ mpc' = "returned"
    /\ UNCHANGED <<args, servers, i, wg, pc, requests, resp, data, info, row,
                   stdout, stderr, errlog>>

\* wg.Wait() returns, and with it the command.
Wait ==
    /\ mpc = "loop"
    /\ i > N
    /\ wg = 0
    /\ mpc' = "returned"
    /\ UNCHANGED <<args, servers, i, wg, pc, requests, resp, data, info, row,
                   stdout, stderr, errlog>>

(***************************************************************************)
(* One goroutine.                                                          *)
(***************************************************************************)
\* The goroutine function returns: the deferred wg.Done() runs (after the
\* deferred resp.Body.Close(), when a response was received).
Return(t) ==
    /\ wg' = wg - 1
    /\ pc' = [pc EXCEPT ![t] = "done"]

\* u := fmt.Sprintf(...); a.httpClient.Get(u) is called.
Get(t) ==
    /\ pc[t] = "start"
    /\ requests' = [requests EXCEPT ![t] = Append(@, RequestURL(t))]
    /\ pc' = [pc EXCEPT ![t] = "get"]
    /\ UNCHANGED <<args, servers, mpc, i, wg, resp, data, info, row,
                   stdout, stderr, errlog>>

\* The error path of Get with wg.Done() not deferred before it: the line on
\* os.Stderr, and a return that leaves the WaitGroup counter alone.
SendFailedNoDone(t) ==
    /\ pc[t] = "get"
    /\ stderr' = Append(stderr, [t |-> t, w |-> <<"failed to send request; ", "\n">>])
    /\ pc' = [pc EXCEPT ![t] = "done"]
    /\ UNCHANGED <<args, servers, mpc, i, wg, requests, resp, data, info, row,
                   stdout, errlog>>

\* The error path of Get with one retry: after the first failure the
\* goroutine builds the URL and calls Get again.
SendFailedRetry(t) ==
    /\ pc[t] = "get"
    /\ stderr' = Append(stderr, [t |-> t, w |-> <<"failed to send request; ", "\n">>])
    /\ IF Len(requests[t]) < 2
         THEN pc' = [pc EXCEPT ![t] = "start"] /\ wg' = wg
         ELSE Return(t)
    /\ UNCHANGED <<args, servers, mpc, i, requests, resp, data, info, row,
                   stdout, errlog>>

\* The error of Get reported with fmt.Printf instead of
\* fmt.Fprintf(os.Stderr, ...): the line goes to os.Stdout.
SendFailedToStdout(t) ==
    /\ pc[t] = "get"
    /\ stdout' = Append(stdout, [t |-> t, w |-> <<"failed to send request; ", "\n">>])
    /\ Return(t)
    /\ UNCHANGED <<args, servers, mpc, i, requests, resp, data, info, row,
                   stderr, errlog>>

\* Get returns err != nil: one line on os.Stderr, return.
SendFailed(t) ==
    /\ pc[t] = "get"
    /\ stderr' = Append(stderr, [t |-> t, w |-> <<"failed to send request; ", "\n">>])
    /\ Return(t)
    /\ UNCHANGED <<args, servers, mpc, i, requests, resp, data, info, row,
                   stdout, errlog>>

\* A goroutine that looks at resp.StatusCode: a status of 400 or more is
\* reported like a failed Get and the body is left alone.
SendOKCheckingStatus(t) ==
    /\ pc[t] = "get"
    /\ \E r \in Responses(N) :
        /\ resp' = [resp EXCEPT ![t] = r]
        /\ IF r.status >= 400
             THEN /\ stderr' = Append(stderr,
                        [t |-> t, w |-> <<"failed to send request; ", "\n">>])
                  /\ Return(t)
             ELSE /\ stderr' = stderr
                  /\ wg' = wg
                  /\ pc' = [pc EXCEPT ![t] =
                                IF args.cmd = "unlock" THEN "copy" ELSE "read"]
    /\ UNCHANGED <<args, servers, mpc, i, requests, data, info, row,
                   stdout, errlog>>

\* Get returns a response: whatever its status code, the body is read next
\* (unlock: copied next).
SendOK(t) ==
    /\ pc[t] = "get"
    /\ \E r \in Responses(N) : resp' = [resp EXCEPT ![t] = r]
    /\ pc' = [pc EXCEPT ![t] = IF args.cmd = "unlock" THEN "copy" ELSE "read"]
    /\ UNCHANGED <<args, servers, mpc, i, wg, requests, data, info, row,
                   stdout, stderr, errlog>>

\* Where the goroutine goes after ReadAll (and its error log).
AfterRead ==
    CASE args.cmd \in {"attach", "detach"} -> "print"
      [] format = "json" -> "print"
      [] format = "text" -> "decode"
      [] OTHER -> "return"

\* data, err := ioutil.ReadAll(resp.Body): all of the body and no error, or
\* an error after any number of its bytes.  An error is logged and the
\* goroutine goes on.  With no case of the format switch matching, the
\* goroutine returns here.
ReadAll(t) ==
    /\ pc[t] = "read"
    /\ \E n \in 0..Len(resp[t].body), err \in BOOLEAN :
        /\ ~err => n = Len(resp[t].body)
        /\ data' = [data EXCEPT ![t] = SubSeq(resp[t].body, 1, n)]
        /\ errlog' = IF err
                       THEN Append(errlog, [t |-> t,
                                w |-> "failed to read response from goloba API server"])
                       ELSE errlog
    /\ IF AfterRead = "return"
         THEN Return(t)
         ELSE pc' = [pc EXCEPT ![t] = AfterRead] /\ wg' = wg
    /\ UNCHANGED <<args, servers, mpc, i, requests, resp, info, row,
                   stdout, stderr>>

\* The raw block printed with two calls, fmt.Printf("%s:\n", s.URL) and then
\* fmt.Printf("%s\n", string(data)): two Writes on os.Stdout.
PrintRawInTwoCalls(t) ==
    /\ pc[t] = "print"
    /\ IF row[t] = 0
         THEN /\ stdout' = Append(stdout, [t |-> t, w |-> <<CapturedURL(t), ":", "\n">>])
              /\ row' = [row EXCEPT ![t] = 1]
              /\ UNCHANGED <<wg, pc>>
         ELSE /\ stdout' = Append(stdout, [t |-> t, w |-> data[t] \o <<"\n">>])
              /\ row' = row
              /\ Return(t)
    /\ UNCHANGED <<args, servers, mpc, i, requests, resp, data, info,
                   stderr, errlog>>

\* data declared once outside the go statement: the goroutines race on it,
\* and Printf reads the bytes some goroutine stored there.
PrintRawSharedData(t) ==
    /\ pc[t] = "print"
    /\ \E u \in Targets :
        /\ pc[u] \in {"print", "done"}
        /\ resp[u] # NoResp
        /\ stdout' = Append(stdout, [t |-> t, w |-> RawBlock(t, data[u])])
    /\ Return(t)
    /\ UNCHANGED <<args, servers, mpc, i, requests, resp, data, info, row,
                   stderr, errlog>>

\* fmt.Printf("%s:\n%s\n", s.URL, string(data)) of attach, detach and
\* info -format json: one Write on os.Stdout, then return.
PrintRaw(t) ==
    /\ pc[t] = "print"
    /\ stdout' = Append(stdout, [t |-> t, w |-> RawBlock(t, data[t])])
    /\ Return(t)
    /\ UNCHANGED <<args, servers, mpc, i, requests, resp, data, info, row,
                   stderr, errlog>>

\* err = json.Unmarshal(data, &info): an error is logged and the goroutine
\* goes on to print info.
Decode(t) ==
    /\ pc[t] = "decode"
    /\ LET r == Unmarshal(data[t])
       IN  /\ info' = [info EXCEPT ![t] = [Services |-> r.Services]]
           /\ errlog' = IF r.err
                          THEN Append(errlog, [t |-> t,
                                w |-> "failed to unmarshal JSON response from goloba API server"])
                          ELSE errlog
    /\ pc' = [pc EXCEPT ![t] = "rows"]
    /\ UNCHANGED <<args, servers, mpc, i, wg, requests, resp, data, row,
                   stdout, stderr>>

\* The next fmt.Printf / fmt.Println of the text block: one Write on
\* os.Stdout each; after the last one the goroutine returns.
PrintRow(t) ==
    /\ pc[t] = "rows"
    /\ LET ws == TextWrites(t, info[t])
       IN  /\ stdout' = Append(stdout, [t |-> t, w |-> ws[row[t] + 1]])
           /\ row' = [row EXCEPT ![t] = @ + 1]
           /\ IF row[t] + 1 = Len(ws)
                THEN Return(t)
                ELSE UNCHANGED <<wg, pc>>
    /\ UNCHANGED <<args, servers, mpc, i, requests, resp, data, info,
                   stderr, errlog>>

\* io.Copy(os.Stdout, resp.Body), one round of its loop: a Read that
\* returns some bytes, and the Write of those bytes.
CopyChunk(t) ==
    /\ pc[t] = "copy"
    /\ \E n \in 1..(Len(resp[t].body) - Len(data[t])) :
        LET chunk == SubSeq(resp[t].body, Len(data[t]) + 1, Len(data[t]) + n)
        IN  /\ data' = [data EXCEPT ![t] = @ \o chunk]
            /\ stdout' = Append(stdout, [t |-> t, w |-> chunk])
    /\ UNCHANGED <<args, servers, mpc, i, wg, pc, requests, resp, info, row,
                   stderr, errlog>>

\* io.Copy with its error checked: a copy that stopped before the end of
\* the body is logged like a failed read.
CopyEndLogged(t) ==
    /\ pc[t] = "copy"
    /\ errlog' = IF Len(data[t]) < Len(resp[t].body)
                   THEN Append(errlog, [t |-> t,
                            w |-> "failed to read response from goloba API server"])
                   ELSE errlog
    /\ Return(t)
    /\ UNCHANGED <<args, servers, mpc, i, requests, resp, data, info, row,
                   stdout, stderr>>

\* io.Copy ends: Read returned io.EOF after the whole body, or an error at
\* any point.  Its results are dropped; the goroutine returns.
CopyEnd(t) ==
    /\ pc[t] = "copy"
    /\ Return(t)
    /\ UNCHANGED <<args, servers, mpc, i, requests, resp, data, info, row,
                   stdout, stderr, errlog>>

Next ==
    \/ Launch
    \/ Wait
    \/ \E t \in Targets : Get(t)
    \/ \E t \in Targets : SendFailed(t)
    \/ \E t \in Targets : SendOK(t)
    \/ \E t \in Targets : ReadAll(t)
    \/ \E t \in Targets : PrintRaw(t)
    \/ \E t \in Targets : Decode(t)
    \/ \E t \in Targets : PrintRow(t)
    \/ \E t \in Targets : CopyChunk(t)
    \/ \E t \in Targets : CopyEnd(t)

Spec == Init /\ [][Next]_vars

\* The steps of the goroutine of entry t.
Goroutine(t) ==
    /\ t \in Targets
    /\ \/ Get(t)
       \/ SendFailed(t)
       \/ SendOK(t)
       \/ ReadAll(t)
       \/ PrintRaw(t)
       \/ Decode(t)
       \/ PrintRow(t)
       \/ CopyChunk(t)
       \/ CopyEnd(t)

\* The Go scheduler runs every runnable goroutine, a write to a stream
\* returns, and http.Client.Timeout makes every Get and every body read
\* return: the command function and each goroutine take their next step.
FairSpec ==
    /\ Spec
    /\ WF_vars(Launch)
    /\ WF_vars(Wait)
    /\ \A t \in 1..MaxTargets : WF_vars(Goroutine(t))

(***************************************************************************)
(* Reading the streams.                                                    *)
(***************************************************************************)
\* The writes of goroutine t on a stream, in order.
WritesOf(stream, t) == SelectSeq(stream, LAMBDA e : e.t = t)

\* The bytes of a sequence of writes.
RECURSIVE Flat(_)
Flat(ws) == IF ws = <<>> THEN <<>> ELSE Head(ws).w \o Flat(Tail(ws))

\* No write of another goroutine lies between two writes of t on os.Stdout.
Contiguous(t) ==
    \A a, b, c \in 1..Len(stdout) :
        (a < b /\ b < c /\ stdout[a].t = t /\ stdout[c].t = t) => stdout[b].t = t

\* Get returned an error to goroutine t.
SendHasFailed(t) == WritesOf(stderr, t) # <<>>

\* ioutil.ReadAll returned an error to goroutine t.
ReadHasFailed(t) ==
    \E k \in 1..Len(errlog) :
        errlog[k] = [t |-> t, w |-> "failed to read response from goloba API server"]

\* json.Unmarshal returned an error to goroutine t.
DecodeHasFailed(t) ==
    \E k \in 1..Len(errlog) :
        errlog[k] = [t |-> t,
                     w |-> "failed to unmarshal JSON response from goloba API server"]

(***************************************************************************)
(* C1.  info -format text, two or more servers: the writes of one server's *)
(* block (label, the two header lines, service rows, destination rows, the *)
(* blank line) are contiguous on os.Stdout in every interleaving.          *)
(* The goroutines print the block with one Printf per line, so this fails. *)
(***************************************************************************)
C1_TextBlocksContiguous ==
    (args.cmd = "info" /\ format = "text" /\ N >= 2)
        => \A t \in Targets : Contiguous(t)

(***************************************************************************)
(* C2.  Join barrier: the command has returned only if every goroutine has *)
(* finished (after a failure or after its last write); it does not return  *)
(* while one of them is still sending, reading or writing.                 *)
(***************************************************************************)
C2_JoinBarrier ==
    mpc = "returned" => \A t \in Targets : pc[t] = "done"

\* The command has returned after one goroutine failed to send and another
\* one printed.
C2_Witness ==
    /\ mpc = "returned"
    /\ \E t, u \in Targets : SendHasFailed(t) /\ WritesOf(stdout, u) # <<>>

\* The bytes goroutine t puts on os.Stdout in a complete run, given what it
\* received: nothing after a failed Get or with an unknown format, the label
\* and the bytes read for the raw commands, the text block of the decoded
\* bytes for info -format text, the bytes copied for unlock.
ExpectedBytes(t) ==
    CASE resp[t] = NoResp -> <<>>
      [] resp[t] # NoResp /\ args.cmd = "unlock" -> data[t]
      [] resp[t] # NoResp /\ (args.cmd \in {"attach", "detach"}
                                \/ (args.cmd = "info" /\ format = "json")) ->
            <<servers[t], ":", "\n">> \o data[t] \o <<"\n">>
      [] resp[t] # NoResp /\ args.cmd = "info" /\ format = "text" ->
            LET ws == TextWrites(t, Unmarshal(data[t]))
            IN  Flat([k \in 1..Len(ws) |-> [t |-> t, w |-> ws[k]]])
      [] OTHER -> <<>>

(***************************************************************************)
(* C3.  Isolation and termination: once the Get of one server has failed,  *)
(* the command eventually returns, with every goroutine finished and the   *)
(* complete output of every server that answered on os.Stdout.  (With a    *)
(* format that is neither json nor text no server has any output.)         *)
(***************************************************************************)
C3_IsolationAndTermination ==
    (\E t \in Targets : SendHasFailed(t))
        ~> (/\ mpc = "returned"
            /\ \A u \in Targets :
                    /\ pc[u] = "done"
                    /\ Flat(WritesOf(stdout, u)) = ExpectedBytes(u))

\* The command has returned; one Get failed and the block of another
\* server, whose Get succeeded, is on os.Stdout.
C3_Witness ==
    /\ mpc = "returned"
    /\ \E t, u \in Targets :
            /\ SendHasFailed(t)
            /\ resp[u] # NoResp
            /\ WritesOf(stdout, u) # <<>>
            /\ Flat(WritesOf(stdout, u)) = ExpectedBytes(u)

\* An error of goroutine t went to os.Stderr or to the log.
ErrorReported(t) == SendHasFailed(t) \/ ReadHasFailed(t) \/ DecodeHasFailed(t)

\* Goroutine t has written to os.Stdout.
BlockWritten(t) == WritesOf(stdout, t) # <<>>

(***************************************************************************)
(* C4.  When the command returns no server has both an error reported and  *)
(* a block on os.Stdout.  After a failed ReadAll (and after a failed       *)
(* Unmarshal) the goroutine logs the error and prints all the same.        *)
(***************************************************************************)
C4_ErrorOrBlockNotBoth ==
    mpc = "returned"
        => \A t \in Targets : ~(ErrorReported(t) /\ BlockWritten(t))

\* The writes of t are what a body decoded without error renders to.
OrdinaryBlock(t) ==
    \E b \in SeqsUpTo(Bytes, MaxBody) :
        /\ ~Unmarshal(b).err
        /\ LET ws == WritesOf(stdout, t)
           IN  [k \in 1..Len(ws) |-> ws[k].w] = TextWrites(t, Unmarshal(b))

(***************************************************************************)
(* C5.  info -format text: a server whose body json.Unmarshal rejects has  *)
(* no block on os.Stdout, or a block that is not the block of any          *)
(* successfully decoded report.  The code prints whatever info holds.      *)
(***************************************************************************)
C5_DecodeFailureNotOrdinaryBlock ==
    (args.cmd = "info" /\ format = "text" /\ mpc = "returned")
        => \A t \in Targets :
                DecodeHasFailed(t) => (~BlockWritten(t) \/ ~OrdinaryBlock(t))

(***************************************************************************)
(* C6.  One run issues exactly one request per api_servers entry (equal    *)
(* URLs counted separately), addressed to that entry's URL, and all        *)
(* requests carry the same path and the same query.                        *)
(***************************************************************************)
C6_OneRequestPerTarget ==
    /\ \A t \in Targets :
            /\ Len(requests[t]) <= 1
            /\ pc[t] \notin {"idle", "start"} =>
                    /\ Len(requests[t]) = 1
                    /\ requests[t][1].base = servers[t]
    /\ \A t, u \in Targets :
            (requests[t] # <<>> /\ requests[u] # <<>>) =>
                /\ requests[t][1].path = requests[u][1].path
                /\ requests[t][1].query = requests[u][1].query
    /\ mpc = "returned" =>
            Cardinality({t \in Targets : Len(requests[t]) = 1}) = N

\* The command has returned after sending to two distinct URLs.
C6_Witness ==
    /\ mpc = "returned"
    /\ N >= 2
    /\ servers[1] # servers[2]
    /\ \A t \in Targets : Len(requests[t]) = 1 /\ requests[t][1].base = servers[t]

(***************************************************************************)
(* C7.  unlock, two or more servers: the bytes of one server's body are    *)
(* contiguous on os.Stdout in every interleaving, also when the body       *)
(* arrives in several chunks.  io.Copy writes each chunk as it is read, so *)
(* this fails.                                                             *)
(***************************************************************************)
C7_UnlockBlocksContiguous ==
    (args.cmd = "unlock" /\ N >= 2)
        => \A t \in Targets : Contiguous(t)

\* The commands that print label and body with one Printf.
RawCommand ==
    \/ args.cmd \in {"attach", "detach"}
    \/ args.cmd = "info" /\ format = "json"

RECURSIVE BytesInListOrder(_)
BytesInListOrder(n) ==
    IF n = 0 THEN <<>> ELSE BytesInListOrder(n - 1) \o ExpectedBytes(n)

(***************************************************************************)
(* C9.  As claimed: the content of os.Stdout at return is the same in      *)
(* every run with the same servers, command and responses.  The run that   *)
(* finishes the goroutines in the order of api_servers is always possible, *)
(* so this says that every run ends with the content of that run.          *)
(***************************************************************************)
C9_ReportDeterministic ==
    mpc = "returned" => Flat(stdout) = BytesInListOrder(N)

(***************************************************************************)
(* C9, amended.  The bytes each server contributes to os.Stdout, in their  *)
(* order, are the same in every run with the same servers, command and     *)
(* responses: they are a function of the server's URL and of the bytes     *)
(* received from it.  Only the order in which the writes of different      *)
(* servers follow one another depends on the scheduling.                   *)
(***************************************************************************)
C9_PerTargetDeterministic ==
    mpc = "returned"
        => \A t \in Targets : Flat(WritesOf(stdout, t)) = ExpectedBytes(t)

\* Two servers with different URLs both have output, and os.Stdout holds it
\* in another order than that of api_servers.
C9_Witness ==
    /\ mpc = "returned"
    /\ N >= 2
    /\ servers[1] # servers[2]
    /\ \A t \in Targets : BlockWritten(t)
    /\ Flat(stdout) # BytesInListOrder(N)

(***************************************************************************)
(* C10.  Unbounded fan-out: while entries remain the loop can always start *)
(* the next goroutine, whatever the earlier ones are doing; the command    *)
(* waits only after starting all of them; and a goroutine that has started *)
(* and not finished can always take its next step, whatever the others are *)
(* doing.                                                                  *)
(***************************************************************************)
C10_UnboundedFanOut ==
    /\ (mpc = "loop" /\ i <= N) => (ENABLED Launch /\ ~ENABLED Wait)
    /\ mpc = "returned" => i = N + 1
    /\ \A t \in Targets :
            /\ pc[t] = "idle" <=> (t >= i)
            /\ pc[t] \notin {"idle", "done"} => ENABLED Goroutine(t)

\* All requests are in flight at the same time.
C10_Witness ==
    /\ N >= 2
    /\ \A t \in Targets : pc[t] = "get"

(***************************************************************************)
(* C11.  No retry: a goroutine hands at most one request to the HTTP       *)
(* client.  Once its Get, its ReadAll or its Unmarshal has failed it has   *)
(* sent exactly one request and is never again about to send or sending;   *)
(* after a failed Get it is finished.                                      *)
(***************************************************************************)
C11_NoRetry ==
    \A t \in Targets :
        /\ Len(requests[t]) <= 1
        /\ ErrorReported(t) =>
                /\ Len(requests[t]) = 1
                /\ pc[t] \notin {"idle", "start", "get"}
        /\ SendHasFailed(t) => pc[t] = "done"

\* The command has returned after a failed Get, a failed ReadAll and a
\* failed Unmarshal.
C11_Witness ==
    /\ mpc = "returned"
    /\ \E t, u \in Targets :
            /\ SendHasFailed(t)
            /\ ReadHasFailed(u)
            /\ DecodeHasFailed(u)
            /\ Len(requests[t]) = 1
            /\ Len(requests[u]) = 1

(***************************************************************************)
(* C12.  With an empty server list every command is a no-op: no goroutine  *)
(* is started and no request is sent, nothing is written to os.Stdout,     *)
(* os.Stderr or the error log, and wg.Wait() does not block: while the     *)
(* command has not returned, the only step it can take is to return.       *)
(***************************************************************************)
C12_EmptyTargetSetNoOp ==
    N = 0 =>
        /\ DOMAIN requests = {}
        /\ DOMAIN pc = {}
        /\ stdout = <<>>
        /\ stderr = <<>>
        /\ errlog = <<>>
        /\ wg = 0
        /\ i = 1
        /\ mpc = "loop" => (ENABLED Wait) /\ ~(ENABLED Launch)

\* An unlock with no configured server has returned.
C12_Witness ==
    /\ N = 0
    /\ args.cmd = "unlock"
    /\ mpc = "returned"

(***************************************************************************)
(* C13.  The query of every request sent: attach and detach send service,  *)
(* dest and lock, where lock is true when -lock was not given and the      *)
(* given value otherwise; unlock sends service and dest and no lock; info  *)
(* sends no query.  service and dest carry the escaped -s and -d values,   *)
(* the empty string when the flag was not given.                           *)
(***************************************************************************)
C13_QueryParameters ==
    \A t \in Targets : \A k \in 1..Len(requests[t]) :
        LET q == requests[t][k].query
            given(a) == IF a = NoAddr THEN <<>> ELSE a
            carries(v, a) ==
                /\ Len(v) = Len(given(a))
                /\ \A j \in 1..Len(v) :
                        v[j] = IF given(a)[j] = ":" THEN "%3A" ELSE given(a)[j]
        IN  /\ args.cmd = "info" => q = <<>>
            /\ args.cmd \in {"attach", "detach", "unlock"} =>
                    /\ Len(q) >= 2
                    /\ q[1][1] = "service" /\ carries(q[1][2], args.s)
                    /\ q[2][1] = "dest" /\ carries(q[2][2], args.d)
            /\ args.cmd \in {"attach", "detach"} =>
                    /\ Len(q) = 3
                    /\ q[3][1] = "lock"
                    /\ q[3][2] = IF args.lock = Unset THEN "true" ELSE args.lock
            /\ args.cmd = "unlock" =>
                    /\ Len(q) = 2
                    /\ \A j \in 1..Len(q) : q[j][1] # "lock"

\* An attach run without -s, -d and -lock has sent a request with empty
\* service and dest and with lock=true.
C13_Witness ==
    /\ args.cmd = "attach"
    /\ args.lock = Unset
    /\ args.s = NoAddr
    /\ args.d = NoAddr
    /\ \E t \in Targets :
            /\ Len(requests[t]) = 1
            /\ requests[t][1].query =
                    <<<<"service", <<>>>>, <<"dest", <<>>>>, <<"lock", "true">>>>

(***************************************************************************)
(* C14.  Status codes are not interpreted.  A goroutine that received a    *)
(* response, whatever its status, never writes the send-failure line; the  *)
(* bytes it has put on os.Stdout when it finishes are those that the       *)
(* command, the format, the URL and the bytes read from the body           *)
(* determine, and it has logged a decode error exactly when info -format   *)
(* text could not decode those bytes.  The status occurs in none of these, *)
(* so two responses that differ in the status only yield the same output.  *)
(***************************************************************************)
C14_StatusNotInterpreted ==
    \A t \in Targets :
        resp[t] # NoResp =>
            /\ resp[t].status \in Statuses
            /\ ~SendHasFailed(t)
            /\ pc[t] # "done" => pc[t] \in {"read", "copy", "print", "decode", "rows"}
            /\ pc[t] = "done" =>
                    /\ Flat(WritesOf(stdout, t)) = ExpectedBytes(t)
                    /\ DecodeHasFailed(t) <=>
                            /\ args.cmd = "info"
                            /\ format = "text"
                            /\ Unmarshal(data[t]).err
                    /\ args.cmd # "unlock" /\ ~ReadHasFailed(t)
                            => data[t] = resp[t].body

\* A response with status 500 and a decodable body was read, decoded and
\* printed by info -format text without any error.
C14_Witness ==
    /\ args.cmd = "info"
    /\ format = "text"
    /\ \E t \in Targets :
            /\ pc[t] = "done"
            /\ resp[t] = [status |-> 500, body |-> <<"S", "E">>]
            /\ ~ErrorReported(t)
            /\ Len(Flat(WritesOf(stdout, t))) > 0
            /\ Flat(WritesOf(stdout, t)) = ExpectedBytes(t)

(***************************************************************************)
(* C15.  info -format json round trip: the block a finished goroutine has  *)
(* written for a response is one write holding the URL, ':' and a newline, *)
(* then the bytes of the response body, all of them, unchanged and in      *)
(* order, then one newline.                                                *)
(***************************************************************************)
C15_JsonRoundTrip ==
    (args.cmd = "info" /\ format = "json") =>
        \A t \in Targets :
            (pc[t] = "done" /\ resp[t] # NoResp) =>
                LET ws == WritesOf(stdout, t)
                IN  /\ Len(ws) = 1
                    /\ ws[1].w = <<servers[t], ":", "\n">> \o resp[t].body \o <<"\n">>

(***************************************************************************)
(* C16.  info -format text: the writes of a finished goroutine that got a  *)
(* response are the URL line, the two header lines, then for every decoded *)
(* service, in order, its row directly followed by one row for each of its *)
(* destinations, in order, and a final empty line.  A service without      *)
(* destinations has its row only, and there are as many destination rows   *)
(* as destinations.                                                        *)
(***************************************************************************)
C16_TextRendering ==
    (args.cmd = "info" /\ format = "text") =>
        \A t \in Targets :
            (pc[t] = "done" /\ resp[t] # NoResp) =>
                LET ws == WritesOf(stdout, t)
                    S == info[t].Services
                    \* destinations of the services before the k-th
                    before(k) == Cardinality(
                        {p \in (1..Len(S)) \X (1..MaxBody) :
                            p[1] < k /\ p[2] <= Len(S[p[1]].Destinations)})
                    at(k) == 3 + k + before(k)
                IN  /\ Len(ws) = 3 + Len(S) + before(Len(S) + 1) + 1
                    /\ ws[1].w = <<servers[t], ":", "\n">>
                    /\ ws[2].w = <<"Prot LocalAddress:Port Scheduler Flags", "\n">>
                    /\ ws[3].w = <<"  -> RemoteAddress:Port Forward Weight ActiveConn InActConn Detached Locked", "\n">>
                    /\ \A k \in 1..Len(S) :
                        /\ ws[at(k)].w = <<"svc", ToString(S[k].id), "\n">>
                        /\ \A m \in 1..Len(S[k].Destinations) :
                                ws[at(k) + m].w =
                                    <<"  -> ", ToString(S[k].Destinations[m]), "\n">>
                    /\ ws[Len(ws)].w = <<"\n">>
                    /\ Cardinality({k \in 1..Len(ws) : ws[k].w[1] = "  -> "})
                            = before(Len(S) + 1)

\* A report whose first service has no destination and whose second has
\* one was decoded without error and printed.
C16_Witness ==
    /\ args.cmd = "info"
    /\ format = "text"
    /\ \E t \in Targets :
            /\ pc[t] = "done"
            /\ ~ErrorReported(t)
            /\ Len(info[t].Services) = 2
            /\ info[t].Services[1].Destinations = <<>>
            /\ Len(info[t].Services[2].Destinations) = 1
            /\ Len(WritesOf(stdout, t)) = 7

(***************************************************************************)
(* C17.  A goroutine whose Get failed has, in every command, written       *)
(* nothing to os.Stdout and exactly one line to os.Stderr, has no response *)
(* and has read, decoded and logged nothing, and it has finished with its  *)
(* wg.Done() counted: wg is the number of started, unfinished goroutines.  *)
(***************************************************************************)
C17_SendFailure ==
    \A t \in Targets :
        /\ (pc[t] = "done" /\ resp[t] = NoResp) =>
                /\ Len(requests[t]) = 1
                /\ WritesOf(stdout, t) = <<>>
                /\ WritesOf(stderr, t) =
                        <<[t |-> t, w |-> <<"failed to send request; ", "\n">>]>>
                /\ WritesOf(errlog, t) = <<>>
                /\ data[t] = <<>>
                /\ info[t].Services = <<>>
                /\ row[t] = 0
                /\ wg = Cardinality({u \in Targets : pc[u] \notin {"idle", "done"}})
        /\ WritesOf(stderr, t) # <<>> => (pc[t] = "done" /\ resp[t] = NoResp)

\* A detach has returned after the Get of one server failed and another
\* server answered.
C17_Witness ==
    /\ args.cmd = "detach"
    /\ mpc = "returned"
    /\ \E t, u \in Targets :
            /\ resp[t] = NoResp
            /\ Len(WritesOf(stderr, t)) = 1
            /\ resp[u] # NoResp
            /\ WritesOf(stdout, u) # <<>>

(***************************************************************************)
(* C18.  WaitGroup accounting: exactly the servers before the loop index   *)
(* have a goroutine, each counted by one wg.Add(1); the counter is the     *)
(* number of started goroutines that have not finished, which is the       *)
(* number started minus the number finished, and is never negative;        *)
(* wg.Wait() can return only at zero, and the command has returned only    *)
(* with every goroutine finished.                                          *)
(***************************************************************************)
C18_WaitGroupAccounting ==
    LET started == {t \in Targets : pc[t] # "idle"}
        finished == {t \in Targets : pc[t] = "done"}
    IN  /\ started = 1..(i - 1)
        /\ wg = Cardinality(started \ finished)
        /\ wg = (i - 1) - Cardinality(finished)
        /\ wg >= 0
        /\ (ENABLED Wait) => (wg = 0 /\ finished = Targets)
        /\ mpc = "returned" => (wg = 0 /\ finished = Targets)

\* info with an unrecognised format has returned: one goroutine left after
\* a failed Get, the other after reading a body for which no case of the
\* format switch matched.
C18_Witness ==
    /\ args.cmd = "info"
    /\ format = "xml"
    /\ mpc = "returned"
    /\ wg = 0
    /\ \E t, u \in Targets :
            /\ SendHasFailed(t)
            /\ resp[u] # NoResp
            /\ WritesOf(stdout, u) = <<>>

(***************************************************************************)
(* C19.  unlock: the bytes a goroutine has written to os.Stdout are the    *)
(* bytes it has read from its response body, a leading part of that body,  *)
(* with no URL label and no separator among them; a goroutine that got a   *)
(* response writes nothing to os.Stderr and logs nothing, also when the    *)
(* copy ended before the end of the body, and what it wrote stays.         *)
(***************************************************************************)
C19_UnlockCopiesBytesRead ==
    args.cmd = "unlock" =>
        \A t \in Targets :
            LET ws == WritesOf(stdout, t)
            IN  /\ Flat(ws) = data[t]
                /\ Len(data[t]) <= Len(resp[t].body)
                /\ data[t] = SubSeq(resp[t].body, 1, Len(data[t]))
                /\ \A k \in 1..Len(ws) : \A j \in 1..Len(ws[k].w) :
                        ws[k].w[j] \in Bytes
                /\ resp[t] # NoResp =>
                        /\ WritesOf(stderr, t) = <<>>
                        /\ WritesOf(errlog, t) = <<>>

\* An unlock has returned after the copy of a two-byte body ended behind
\* the first byte: that byte is on os.Stdout and no error was reported.
C19_Witness ==
    /\ args.cmd = "unlock"
    /\ mpc = "returned"
    /\ \E t \in Targets :
            /\ Len(resp[t].body) = 2
            /\ Flat(WritesOf(stdout, t)) = <<resp[t].body[1]>>
            /\ ~ErrorReported(t)

====
